---- MODULE Spec2Model ----
(***************************************************************************)
(* Intervention-location computation and example assembly of pyreft        *)
(* (src/pyreft/dataset.py).                                                *)
(*                                                                         *)
(* Python lists and 1-d tensors are sequences; a dict is a function from   *)
(* its keys (strings) to its values, so "key in dict" is                   *)
(* key \in DOMAIN dict.  Sequences are 1-based: the Python element x[i]    *)
(* is x[i + 1] here.                                                       *)
(***************************************************************************)
EXTENDS Integers, Sequences, FiniteSets, TLC

\* dataset.py line 1
IGNORE_INDEX == -100

\* Largest requested first_n / last_n.
MaxN == 5
\* Largest last_position handed to get_intervention_locations.
MaxPos == 10
\* Largest num_interventions.
MaxInterventions == 4
\* Longest token sequence the tokenizer returns.
MaxLen == 3
\* Largest first_n / last_n of a dataset's "position" argument.
MaxDataN == 2
\* Largest num_interventions of a dataset.
MaxDataInterventions == 2
\* Longest sequence of a record of a dataset object that is accessed.
MaxAccessLen == 1
\* Longest id sequence of a record that goes into a batch.
MaxBatchLen == 2
\* Largest first_n / last_n of a dataset whose examples are batched by
\* ReftDataCollator.
MaxCollateN == 3
\* Longest prompt of a record whose example is batched by ReftDataCollator.
MaxPromptLen == 3
\* Largest batch size, number of intervention layers and number of positions of
\* a batch handed to a training step.
MaxTrainBatch == 2
MaxTrainLayers == 2
MaxTrainPositions == 2
\* Longest label sequence of an example of a CTC batch, and the largest time
\* dimension of the logits.
MaxLabelLen == 2
MaxTimeSteps == 2

VARIABLES
    kwargs,         \* the keyword arguments fixed for a run (dataset.py 74-81, 132)
    returned,       \* the last two selector calls: <<[last_position, intervention_locations]>>
    dataset_class,  \* the dataset class under construction or access
    data_split,     \* self.data_split
    data_item,      \* the record being assembled, with the tokenizer's answers for its texts
    tokenized,      \* what self.tokenize returned (dataset.py 160, 791)
    last_pos,       \* the last_position self.tokenize returned (dataset.py 160, 791)
    result,         \* the assembled example (dataset.py 161-162, 792-799)
    pc,             \* "tokenize", "compute", "done" or "error"
    record_source,  \* how self.task_dataset hands out a record on access
    store,          \* the examples a dataset object keeps (self.result, self.input_ids[i] ...,
                    \* or the records of self.task_dataset), by index
    held,           \* the example the last __getitem__ returned, in the caller's hands
    got,            \* what the last __getitem__ returned, as it was when returned
    first_seen,     \* per index, what the first __getitem__ of that index returned
    instances,      \* the examples handed to a collator
    batch,          \* the batch the collator returned
    trainer,        \* the training-step variant that runs
    inputs,         \* the batch handed to compute_loss
    forward,        \* the arguments of the call of the intervenable model, if it was made
    outcome,        \* how compute_loss ended: "loss" or the exception raised
    logits_size,    \* logits.size() of the model's output: batch_size and time_steps
    lengths,        \* the input_lengths and target_lengths handed to nn.CTCLoss
    loader,         \* the batches of evaluate's dataloader, in order
    eval_step,      \* how many batches evaluate's loop has taken
    all_preds,      \* evaluate's list of logits, one entry per batch
    all_labels,     \* evaluate's list of labels, one entry per batch
    calls           \* evaluate's calls of the intervenable model and of compute_metrics

dataVars == <<dataset_class, data_split, data_item, tokenized, last_pos, result, pc>>

accessVars == <<record_source, store, held, got, first_seen>>

collateVars == <<instances, batch>>

trainVars == <<trainer, inputs, forward, outcome>>

ctcVars == <<logits_size, lengths>>

evalVars == <<loader, eval_step, all_preds, all_labels, calls>>

laterVars == <<accessVars, collateVars, trainVars, ctcVars, evalVars>>

vars == <<kwargs, returned, dataVars, laterVars>>

(***************************************************************************)
(* Python built-ins used by the code.                                      *)
(***************************************************************************)
\* min(a, b)
Min(a, b) == IF a < b THEN a ELSE b

\* max(a, b)
Max(a, b) == IF a > b THEN a ELSE b

\* [i for i in range(a, b)]: empty when b <= a
Range(a, b) == IF b > a THEN [i \in 1..(b - a) |-> a + i - 1] ELSE <<>>

\* [x for _ in range(n)] and [x]*n: empty when n <= 0
Repeat(x, n) == IF n > 0 THEN [i \in 1..n |-> x] ELSE <<>>

(***************************************************************************)
(* get_intervention_locations, dataset.py 67-109.  The "positions" string  *)
(* form of the counts (lines 76-77) is not modelled: the counts are given  *)
(* as first_n / last_n.                                                    *)
(***************************************************************************)
\* lines 74 and 81: defaults of the optional keyword arguments
KwShareWeights(kw) == IF "share_weights" \in DOMAIN kw THEN kw.share_weights ELSE FALSE

KwPadMode(kw) == IF "pad_mode" \in DOMAIN kw THEN kw.pad_mode ELSE "first"

\* mutant of ClampCount: the clamp to last_position instead of its half
ClampCount_NoHalf(last_position, n) == Min(last_position, n)

\* lines 83-84: the clamp of a requested count
ClampCount(last_position, n) == Min(last_position \div 2, n)

\* mutant of PadAmount: the clamp loss is not padded
PadAmount_None(requested, clamped) == 0

\* lines 86, 94, 95: the sentinels owed for one clamped count
PadAmount(requested, clamped) == requested - clamped

\* mutant of PadPosition: the sentinel of pad mode "first" in both modes
PadPosition_AlwaysFirst(pad_mode, last_position) == -1

\* line 87
PadPosition(pad_mode, last_position) == IF pad_mode = "first" THEN -1 ELSE last_position

\* lines 88-109, on the parsed arguments (u_first_n, u_last_n are _first_n, _last_n)
InterventionLocations(last_position, u_first_n, u_last_n, num_interventions, pad_mode, share_weights) ==
    LET first_n == ClampCount(last_position, u_first_n)
        last_n == ClampCount(last_position, u_last_n)
        pad_amount == PadAmount(u_first_n, first_n) + PadAmount(u_last_n, last_n)
        pad_position == PadPosition(pad_mode, last_position)
    IN  IF share_weights \/ (first_n = 0 \/ last_n = 0)
        THEN LET position_list ==
                     Range(0, first_n)
                     \o Range(last_position - last_n, last_position)
                     \o Repeat(pad_position, pad_amount)
             IN  Repeat(position_list, num_interventions)
        ELSE LET left_pad_amount == PadAmount(u_first_n, first_n)
                 right_pad_amount == PadAmount(u_last_n, last_n)
                 left0 == Range(0, first_n) \o Repeat(pad_position, left_pad_amount)
                 right0 == Range(last_position - last_n, last_position)
                           \o Repeat(pad_position, right_pad_amount)
                 left_len == Len(left0)
                 right_len == Len(right0)
                 left_intervention_locations ==
                     IF left_len > right_len THEN left0
                     ELSE left0 \o Repeat(pad_position, right_len - left_len)
                 right_intervention_locations ==
                     IF left_len > right_len
                     THEN right0 \o Repeat(pad_position, left_len - right_len)
                     ELSE right0
             IN  Repeat(left_intervention_locations, num_interventions \div 2)
                 \o Repeat(right_intervention_locations, num_interventions \div 2)

\* lines 67-109: the call with keyword arguments kw and last_position
get_intervention_locations(last_position, kw) ==
    InterventionLocations(last_position, kw.first_n, kw.last_n, kw.num_interventions,
                          KwPadMode(kw), KwShareWeights(kw))

(***************************************************************************)
(* Example assembly: ReftDataset and its subclasses, ReftAudioDatasetFixed.*)
(* The tokenizer is an outside collaborator: a record carries the id       *)
(* sequences the tokenizer returns for its texts.                          *)
(***************************************************************************)
\* tokenizer.pad_token_id (dataset.py 225, 238)
pad_token_id == 0

\* the ids the tokenizer emits: the pad id itself (a tokenizer whose pad token
\* is its end marker) and one other id
Tokens == {pad_token_id, pad_token_id + 1}

\* token sequences of length lo..MaxLen
TokenSeqs(lo) == UNION { [1..n -> Tokens] : n \in lo..MaxLen }

\* result[key] = value
Put(dict, key, value) == (key :> value) @@ dict

\* mutant of MaskPrefix: the last prompt position is left unmasked
MaskPrefix_OffByOne(ids, n) == [i \in 1..Len(ids) |-> IF i < n THEN IGNORE_INDEX ELSE ids[i]]

\* output_ids[:n] = IGNORE_INDEX (dataset.py 425, 486, 676)
MaskPrefix(ids, n) == [i \in 1..Len(ids) |-> IF i <= n THEN IGNORE_INDEX ELSE ids[i]]

\* dataset.py 146-148, 741-743, 864-865: self.pad_mode, self.fields_to_pad,
\* self.fields_to_mask
SelfPadMode(cls) == "first"

FieldsToPad(cls) ==
    IF cls = "ReftAudioDatasetFixed" THEN <<"input_values", "labels">>
    ELSE IF cls = "ReftRewardDataset" THEN <<"chosen_output", "rejected_output">>
    ELSE <<"input_ids", "labels">>

FieldsToMask(cls) ==
    IF cls = "ReftAudioDatasetFixed" THEN <<"input_values">>
    ELSE IF cls = "ReftRewardDataset" THEN <<"chosen_output", "rejected_output">>
    ELSE <<"input_ids">>

\* ReftClassificationDataset.tokenize, dataset.py 373-391
ReftClassificationDataset_tokenize(item, kw) ==
    LET input_ids == item.input_ids
        base_prompt_length == Len(input_ids)
        r1 == Put(<<>>, "input_ids", input_ids)
        r2 == IF kw.label_field = kw.input_field THEN Put(r1, "labels", input_ids)
              ELSE IF kw.label_field # "None" THEN Put(r1, "labels", item.label_ids)
              ELSE r1
    IN  [result |-> r2, last_position |-> base_prompt_length - 1]

\* ReftGenerationDataset.tokenize, dataset.py 408-428
ReftGenerationDataset_tokenize(item) ==
    LET base_prompt_length == Len(item.prompt_ids)
        input_ids == item.input_ids
        output_ids == MaskPrefix(input_ids, base_prompt_length)
    IN  [result |-> Put(Put(<<>>, "input_ids", input_ids), "labels", output_ids),
         last_position |-> base_prompt_length - 1]

\* ReftSupervisedDataset.tokenize, dataset.py 463-489
ReftSupervisedDataset_tokenize(item) ==
    LET base_prompt_length == Len(item.prompt_ids)
        input_ids == item.input_ids
        output_ids == MaskPrefix(input_ids, base_prompt_length)
    IN  [result |-> Put(Put(<<>>, "input_ids", input_ids), "labels", output_ids),
         last_position |-> base_prompt_length - 1]

\* ReftPreferenceDataset.tokenize, dataset.py 653-699
ReftPreferenceDataset_tokenize(item, split) ==
    LET base_prompt_ids == item.prompt_ids
        base_prompt_length == Len(base_prompt_ids)
        base_input_ids == item.input_ids
        output_ids == MaskPrefix(item.output_ids, base_prompt_length)
        max_length == Max(Len(base_input_ids), Len(output_ids))
        input_pad_length == max_length - Len(base_input_ids)
        output_pad_length == max_length - Len(output_ids)
        base_input_ids_padded == base_input_ids \o Repeat(pad_token_id, input_pad_length)
        output_ids_padded == output_ids \o Repeat(IGNORE_INDEX, output_pad_length)
    IN  [result |->
            IF split = "train"
            THEN Put(Put(<<>>, "input_ids", base_input_ids_padded), "labels", output_ids_padded)
            ELSE Put(<<>>, "input_ids", base_prompt_ids),
         last_position |-> base_prompt_length]

\* mutant of SwapNeeded: a tie swaps the candidates too
SwapNeeded_OnTie(chosen_reward, rejected_reward) == chosen_reward <= rejected_reward

\* dataset.py 891: the candidates are swapped so that chosen is better
SwapNeeded(chosen_reward, rejected_reward) == chosen_reward < rejected_reward

\* dataset.py 900-904: base_prompt_length after the loop, entered at index i
\* (0-based) with the count n
RECURSIVE PrefixLoop(_, _, _, _)
PrefixLoop(chosen_ids, rejected_ids, i, n) ==
    IF i >= Min(Len(chosen_ids), Len(rejected_ids)) THEN n
    ELSE IF chosen_ids[i + 1] # rejected_ids[i + 1] THEN n + 1
    ELSE PrefixLoop(chosen_ids, rejected_ids, i + 1, n + 1)

\* ReftRewardDataset.tokenize, dataset.py 867-909.  conv_A_ids and conv_B_ids are
\* the tokenizer's ids for the rendered texts of the two candidates.
ReftRewardDataset_tokenize(item, kw) ==
    LET rewarded == "conv_A_reward_field" \in DOMAIN kw
        swap == rewarded /\ SwapNeeded(item.reward_A, item.reward_B)
        r1 == IF ~rewarded THEN <<>>
              ELSE IF swap
              THEN Put(Put(<<>>, "chosen_reward", item.reward_B), "rejected_reward", item.reward_A)
              ELSE Put(Put(<<>>, "chosen_reward", item.reward_A), "rejected_reward", item.reward_B)
        chosen_ids == IF swap THEN item.conv_B_ids ELSE item.conv_A_ids
        rejected_ids == IF swap THEN item.conv_A_ids ELSE item.conv_B_ids
        base_prompt_length == PrefixLoop(chosen_ids, rejected_ids, 0, 0)
    IN  [result |-> Put(Put(r1, "chosen_output", chosen_ids), "rejected_output", rejected_ids),
         last_position |-> base_prompt_length - 1]

\* ReftAudioDatasetFixed.tokenize, dataset.py 753-782; raises is TRUE when it
\* raises KeyError (lines 764, 774)
ReftAudioDatasetFixed_tokenize(item) ==
    LET hasInp == "input_features" \in DOMAIN item \/ "input_values" \in DOMAIN item
        hasOut == "input_ids" \in DOMAIN item \/ "labels" \in DOMAIN item
        inp == IF "input_features" \in DOMAIN item THEN item.input_features ELSE item.input_values
        r1 == IF "input_features" \in DOMAIN item
              THEN Put(<<>>, "input_features", item.input_features)
              ELSE Put(<<>>, "input_values", item.input_values)
        r2 == IF "input_ids" \in DOMAIN item
              THEN Put(r1, "input_ids", item.input_ids)
              ELSE Put(r1, "labels", item.labels)
    IN  IF ~hasInp \/ ~hasOut THEN [raises |-> TRUE]
        ELSE [raises |-> FALSE, result |-> r2, last_position |-> Len(inp)]

\* mutant of ShiftLocations: the locations are stored unshifted
ShiftLocations_None(locations) == locations

\* (torch.IntTensor(locations) + 1).tolist(), dataset.py 226
ShiftLocations(locations) ==
    [l \in DOMAIN locations |-> [p \in DOMAIN locations[l] |-> locations[l][p] + 1]]

\* dataset.py 219-225 (prepend = TRUE) and 228-234 (prepend = FALSE): one pad
\* element on every field of fields, from the i-th on, that the example holds
RECURSIVE PadFields(_, _, _, _)
PadFields(res, fields, i, prepend) ==
    IF i > Len(fields) THEN res
    ELSE LET field == fields[i]
             pad == IF field = "labels" THEN <<IGNORE_INDEX>> ELSE <<pad_token_id>>
             padded == IF field \notin DOMAIN res THEN res
                       ELSE IF prepend THEN Put(res, field, pad \o res[field])
                       ELSE Put(res, field, res[field] \o pad)
         IN  PadFields(padded, fields, i + 1, prepend)

\* (tensor != pad_token_id).int(), dataset.py 238, 241
AttentionMask(ids) == [i \in 1..Len(ids) |-> IF ids[i] # pad_token_id THEN 1 ELSE 0]

\* dataset.py 237-241
RECURSIVE MaskFields(_, _, _)
MaskFields(res, fields, i) ==
    IF Len(fields) = 1 THEN Put(res, "attention_mask", AttentionMask(res[fields[1]]))
    ELSE IF i > Len(fields) THEN res
    ELSE MaskFields(Put(res, fields[i] \o "_mask", AttentionMask(res[fields[i]])), fields, i + 1)

\* dataset.py 244-251 and 844-850
WithSubspaces(res, item, kw) ==
    IF "subspaces" \in DOMAIN item
    THEN LET num_interventions == IF KwShareWeights(kw) THEN kw.num_interventions \div 2
                                  ELSE kw.num_interventions
         IN  Put(res, "subspaces", Repeat(item.subspaces, num_interventions))
    ELSE res

\* the keyword arguments of the call at dataset.py 212-213 and 833-839
SelectorCallKwargs(cls, kw) == Put(kw, "pad_mode", SelfPadMode(cls))

\* ReftDataset.compute_intervention_and_subspaces, dataset.py 210-253
ReftDataset_compute_intervention_and_subspaces(cls, id, item, res, lp, kw) ==
    LET intervention_locations == get_intervention_locations(lp, SelectorCallKwargs(cls, kw))
        r1 == Put(Put(res, "intervention_locations", intervention_locations), "id", id)
        r2 == IF SelfPadMode(cls) = "first"
              THEN Put(PadFields(r1, FieldsToPad(cls), 1, TRUE),
                       "intervention_locations", ShiftLocations(intervention_locations))
              ELSE IF SelfPadMode(cls) = "last"
              THEN PadFields(r1, FieldsToPad(cls), 1, FALSE)
              ELSE r1
        r3 == MaskFields(r2, FieldsToMask(cls), 1)
    IN  WithSubspaces(r3, item, kw)

\* ReftAudioDatasetFixed.compute_intervention_and_subspaces, dataset.py 824-851
ReftAudioDatasetFixed_compute_intervention_and_subspaces(cls, id, item, res, lp, kw) ==
    LET intervention_locations == get_intervention_locations(lp, SelectorCallKwargs(cls, kw))
        r1 == Put(Put(res, "intervention_locations", intervention_locations), "id", id)
    IN  WithSubspaces(r1, item, kw)

(***************************************************************************)
(* The selector on its own: one configuration, applied to the prompt       *)
(* lengths of successive examples; the last two calls are kept.            *)
(***************************************************************************)
\* the optional keyword arguments: each present or left out
OptionalKwargs ==
    { sw @@ pm :
        sw \in {<<>>} \cup {[share_weights |-> b] : b \in BOOLEAN},
        pm \in {<<>>} \cup {[pad_mode |-> m] : m \in {"first", "last"}} }

SelectorKwargs ==
    { req @@ opt :
        req \in [first_n : 0..MaxN, last_n : 0..MaxN, num_interventions : 1..MaxInterventions],
        opt \in OptionalKwargs }

\* no dataset object has been built
NoDataset ==
    /\ record_source = "none"
    /\ store = <<>>
    /\ held = <<>>
    /\ got = <<>>
    /\ first_seen = <<>>

\* no collator has been called
NoBatch ==
    /\ instances = <<>>
    /\ batch = <<>>

\* no CTC lengths have been computed
NoCtc ==
    /\ logits_size = <<>>
    /\ lengths = <<>>

\* evaluate has not been entered
NoEval ==
    /\ loader = <<>>
    /\ eval_step = 0
    /\ all_preds = <<>>
    /\ all_labels = <<>>
    /\ calls = <<>>

\* no training step has been run
NoStep ==
    /\ trainer = "none"
    /\ inputs = <<>>
    /\ forward = <<>>
    /\ outcome = "none"
    /\ NoCtc /\ NoEval

InitSelect ==
    /\ kwargs \in SelectorKwargs
    /\ returned = <<>>
    /\ dataset_class = "none"
    /\ data_split = "train"
    /\ data_item = <<>>
    /\ tokenized = <<>>
    /\ last_pos = 0
    /\ result = <<>>
    /\ pc = "done"
    /\ NoDataset /\ NoBatch /\ NoStep

Select ==
    /\ \E lp \in 0..MaxPos :
          LET call == [last_position |-> lp,
                       intervention_locations |-> get_intervention_locations(lp, kwargs)]
          IN  returned' = IF Len(returned) < 2 THEN Append(returned, call)
                          ELSE <<returned[2], call>>
    /\ UNCHANGED <<kwargs, dataVars, laterVars>>

NextSelect == Select

SpecSelect == InitSelect /\ [][NextSelect]_vars

(***************************************************************************)
(* Claims about get_intervention_locations, checked under SpecSelect.      *)
(***************************************************************************)
\* what the claims call first_n' and last_n': a count clamped to last_position // 2
Clamped(n, lp) == IF n < lp \div 2 THEN n ELSE lp \div 2

\* the sentinel the claims name: -1 for pad mode first, last_position for last
Sentinel(lp) == IF KwPadMode(kwargs) = "first" THEN -1 ELSE lp

\* a call takes the combined branch: share_weights, or a clamped count of zero
Combined(lp) ==
    \/ KwShareWeights(kwargs)
    \/ Clamped(kwargs.first_n, lp) = 0
    \/ Clamped(kwargs.last_n, lp) = 0

\* the lists of the matrix of the i-th call
Lists(i) == returned[i].intervention_locations

\* the number of entries of list equal to v
Count(list, v) == Cardinality({p \in DOMAIN list : list[p] = v})

C2_ConstantShape ==
    \A i, j \in DOMAIN returned :
        /\ Len(Lists(i)) = Len(Lists(j))
        /\ \A l \in DOMAIN Lists(i) : \A m \in DOMAIN Lists(j) :
              Len(Lists(i)[l]) = Len(Lists(j)[m])

\* C3 as stated: in the split branch the matrix has num_interventions lists, the
\* first num_interventions // 2 start with the leading indices, all the others
\* with the trailing indices, and all have one length.
C3_SplitLayers ==
    \A i \in DOMAIN returned :
        LET lp == returned[i].last_position
            n == kwargs.num_interventions
        IN  ~Combined(lp) =>
              /\ Len(Lists(i)) = n
              /\ \A l \in DOMAIN Lists(i) :
                    IF l <= n \div 2
                    THEN \A p \in 1..Clamped(kwargs.first_n, lp) : Lists(i)[l][p] = p - 1
                    ELSE \A p \in 1..Clamped(kwargs.last_n, lp) :
                            Lists(i)[l][p] = lp - Clamped(kwargs.last_n, lp) + p - 1
              /\ \A l, m \in DOMAIN Lists(i) : Len(Lists(i)[l]) = Len(Lists(i)[m])

\* C4: in the combined branch each of the num_interventions lists is the leading
\* indices 0..first_n'-1, then the trailing indices last_position-last_n' ..
\* last_position-1, then pad_amount sentinels; the two examples of the claim.
C4_CombinedList ==
    \A i \in DOMAIN returned :
        LET lp == returned[i].last_position
            f == Clamped(kwargs.first_n, lp)
            t == Clamped(kwargs.last_n, lp)
        IN  /\ Combined(lp) =>
                /\ Len(Lists(i)) = kwargs.num_interventions
                /\ \A l \in DOMAIN Lists(i) :
                      /\ Len(Lists(i)[l]) = kwargs.first_n + kwargs.last_n
                      /\ \A p \in DOMAIN Lists(i)[l] :
                            Lists(i)[l][p] =
                                IF p <= f THEN p - 1
                                ELSE IF p <= f + t THEN lp - t + (p - f) - 1
                                ELSE Sentinel(lp)
            /\ ( /\ lp = 10 /\ kwargs.first_n = 3 /\ kwargs.last_n = 3
                 /\ kwargs.num_interventions = 1 /\ KwPadMode(kwargs) = "first"
                 /\ KwShareWeights(kwargs) )
               => Lists(i) = << <<0, 1, 2, 7, 8, 9>> >>
            /\ lp = 0 =>
                /\ Len(Lists(i)) = kwargs.num_interventions
                /\ \A l \in DOMAIN Lists(i) : \A p \in DOMAIN Lists(i)[l] :
                      Lists(i)[l][p] = Sentinel(lp)

\* the first example of the claim has been computed, and so has an all-sentinel
\* matrix for last_position = 0
C4_Witness ==
    /\ Len(returned) = 2
    /\ returned[1].last_position = 10 /\ kwargs.first_n = 3 /\ kwargs.last_n = 3
    /\ kwargs.num_interventions = 1 /\ KwPadMode(kwargs) = "first" /\ KwShareWeights(kwargs)
    /\ Lists(1) = << <<0, 1, 2, 7, 8, 9>> >>
    /\ returned[2].last_position = 0
    /\ Lists(2) = << <<-1, -1, -1, -1, -1, -1>> >>

\* the call the claim C5 is about
C5_Case(i) == returned[i].last_position = 2 /\ kwargs.first_n = 5 /\ kwargs.last_n = 5

RealIndices(list, lp) == {list[p] : p \in {q \in DOMAIN list : list[q] # Sentinel(lp)}}

\* C6: every entry is the sentinel or an index in 0..last_position-1, the sentinel
\* is no such index, no list holds an index twice, and two lists of a matrix are
\* the same list or share no index (the leading and trailing windows are disjoint).
C6_EntriesInRange ==
    \A i \in DOMAIN returned :
        LET lp == returned[i].last_position
        IN  /\ Sentinel(lp) \notin 0..(lp - 1)
            /\ \A l \in DOMAIN Lists(i) :
                  /\ \A p \in DOMAIN Lists(i)[l] :
                        Lists(i)[l][p] = Sentinel(lp) \/ Lists(i)[l][p] \in 0..(lp - 1)
                  /\ Count(Lists(i)[l], Sentinel(lp)) + Cardinality(RealIndices(Lists(i)[l], lp))
                        = Len(Lists(i)[l])
            /\ \A l, m \in DOMAIN Lists(i) :
                  \/ Lists(i)[l] = Lists(i)[m]
                  \/ RealIndices(Lists(i)[l], lp) \cap RealIndices(Lists(i)[m], lp) = {}

\* a matrix of pad mode last with a leading index, a trailing index and sentinels
\* in one list, and one without sentinels
C6_Witness ==
    /\ Len(returned) = 2
    /\ KwPadMode(kwargs) = "last"
    /\ returned[1].last_position = 3
    /\ Lists(1) = << <<0, 2, 3, 3>> >>
    /\ returned[2].last_position = 10
    /\ Lists(2) = << <<0, 1, 8, 9>> >>


(***************************************************************************)
(* Assembly of one record: the body of the loop of ReftDataset.__init__    *)
(* (dataset.py 159-162) and ReftAudioDatasetFixed.__getitem__ (788-799).   *)
(***************************************************************************)
ReftDatasetClasses ==
    {"ReftClassificationDataset", "ReftGenerationDataset", "ReftSupervisedDataset",
     "ReftPreferenceDataset", "ReftRewardDataset"}

\* the dataset make_multiple_position_supervised_data_module builds (dataset.py
\* 582-634), named after the function
MultiplePosition == "make_multiple_position_supervised_data_module"

DatasetClasses == ReftDatasetClasses \cup {"ReftAudioDatasetFixed", MultiplePosition}

\* the constructor's **kwargs: the counts parse_positions reads from "position",
\* num_interventions, share_weights given as True or left out (False by default,
\* dataset.py 74, 246), the field names ReftClassificationDataset.preprocess
\* reads (dataset.py 369-371; label_field may be left out), and the reward
\* fields of ReftRewardDataset.preprocess, given or left out (dataset.py 862-863)
DataKwargs(cls) ==
    { req @@ sw @@ fields :
        req \in [first_n : 0..MaxDataN, last_n : 0..MaxDataN,
                 num_interventions : 1..MaxDataInterventions],
        sw \in {<<>>, [share_weights |-> TRUE]},
        fields \in IF cls = "ReftClassificationDataset"
                   THEN [input_field : {"text"}, label_field : {"text", "label", "None"}]
                        \cup [input_field : {"text"}]
                   ELSE IF cls = "ReftRewardDataset"
                   THEN {<<>>, [conv_A_reward_field |-> "reward_A",
                                conv_B_reward_field |-> "reward_B"]}
                   ELSE IF cls = MultiplePosition
                   THEN {<<>>, [nonstop |-> TRUE]}
                   ELSE {<<>>} }

\* the reward scores of the records, in tenths
Rewards == {3, 9}

\* the ids of the rendered candidates of a reward record
CandidateSeqs == UNION { [1..n -> Tokens] : n \in 0..(MaxLen - 1) }

\* the prompt's ids: only their number is read, but for the test split of
\* ReftPreferenceDataset
PromptIds(n) == Repeat(pad_token_id + 1, n)

\* the ids of a text that starts with a prompt of n ids
Continuations(n) == { PromptIds(n) \o c : c \in UNION { [1..k -> Tokens] : k \in 0..(MaxLen - n) } }

\* the feature sequences of the audio records: only their length is read
FeatureSeqs == { Repeat(pad_token_id + 1, n) : n \in 0..MaxLen }

\* the records of a dataset, each with or without a "subspaces" value
DataItems(cls, kw) ==
    LET texts ==
            IF cls = "ReftClassificationDataset"
            THEN IF "label_field" \in DOMAIN kw /\ kw.label_field = "label"
                 THEN [input_ids : TokenSeqs(0), label_ids : TokenSeqs(0)]
                 ELSE [input_ids : TokenSeqs(0)]
            ELSE IF cls = "ReftRewardDataset"
            THEN IF "conv_A_reward_field" \in DOMAIN kw
                 THEN [conv_A_ids : CandidateSeqs, conv_B_ids : CandidateSeqs,
                       reward_A : Rewards, reward_B : Rewards]
                 ELSE [conv_A_ids : CandidateSeqs, conv_B_ids : CandidateSeqs]
            ELSE IF cls = MultiplePosition
            THEN \* input + output, and the end marker unless nonstop (dataset.py 594-597)
                 UNION { [prompt_ids : {PromptIds(n)},
                          input_ids : { c \in Continuations(n) :
                                          "nonstop" \in DOMAIN kw \/ Len(c) > n }] :
                         n \in 0..MaxLen }
            ELSE IF cls = "ReftGenerationDataset"
            THEN UNION { [prompt_ids : {PromptIds(n)}, input_ids : TokenSeqs(n)] : n \in 0..MaxLen }
            ELSE IF cls = "ReftSupervisedDataset"
            THEN UNION { [prompt_ids : {PromptIds(n)}, input_ids : TokenSeqs(n)] : n \in 1..MaxLen }
            ELSE IF cls = "ReftPreferenceDataset"
            THEN UNION { [prompt_ids : {PromptIds(n)}, input_ids : TokenSeqs(n),
                          output_ids : Continuations(n)] : n \in 1..MaxLen }
            ELSE { inp @@ out :
                     inp \in {<<>>} \cup [input_features : FeatureSeqs]
                                    \cup [input_values : FeatureSeqs],
                     out \in {<<>>} \cup [input_ids : TokenSeqs(0)] \cup [labels : TokenSeqs(0)] }
    IN  { t @@ sub : t \in texts, sub \in {<<>>, [subspaces |-> <<0>>]} }

InitData ==
    /\ dataset_class \in DatasetClasses
    /\ data_split \in IF dataset_class = "ReftPreferenceDataset" THEN {"train", "test"}
                      ELSE {"train"}
    /\ kwargs \in DataKwargs(dataset_class)
    /\ data_item \in DataItems(dataset_class, kwargs)
    /\ returned = <<>>
    /\ tokenized = <<>>
    /\ last_pos = 0
    /\ result = <<>>
    /\ pc = "tokenize"
    /\ NoDataset /\ NoBatch /\ NoStep

\* dataset.py 160, with the tokenize of the subclass
Tokenized(t) ==
    /\ tokenized' = t.result
    /\ last_pos' = t.last_position
    /\ pc' = "compute"
    /\ UNCHANGED <<kwargs, returned, dataset_class, data_split, data_item, result, laterVars>>

\* ReftClassificationDataset.preprocess raises KeyError when label_field is not
\* passed (dataset.py 371); otherwise dataset.py 160
TokenizeClassification ==
    /\ pc = "tokenize" /\ dataset_class = "ReftClassificationDataset"
    /\ IF "label_field" \notin DOMAIN kwargs
       THEN /\ pc' = "error"
            /\ UNCHANGED <<kwargs, returned, dataset_class, data_split, data_item,
                           tokenized, last_pos, result, laterVars>>
       ELSE Tokenized(ReftClassificationDataset_tokenize(data_item, kwargs))

TokenizeGeneration ==
    /\ pc = "tokenize" /\ dataset_class = "ReftGenerationDataset"
    /\ Tokenized(ReftGenerationDataset_tokenize(data_item))

TokenizeSupervised ==
    /\ pc = "tokenize" /\ dataset_class = "ReftSupervisedDataset"
    /\ Tokenized(ReftSupervisedDataset_tokenize(data_item))

TokenizePreference ==
    /\ pc = "tokenize" /\ dataset_class = "ReftPreferenceDataset"
    /\ Tokenized(ReftPreferenceDataset_tokenize(data_item, data_split))

TokenizeReward ==
    /\ pc = "tokenize" /\ dataset_class = "ReftRewardDataset"
    /\ Tokenized(ReftRewardDataset_tokenize(data_item, kwargs))

\* dataset.py 161-162
Compute ==
    /\ pc = "compute" /\ dataset_class \in ReftDatasetClasses
    /\ result' = ReftDataset_compute_intervention_and_subspaces(
                     dataset_class, 0, data_item, tokenized, last_pos, kwargs)
    /\ pc' = "done"
    /\ UNCHANGED <<kwargs, returned, dataset_class, data_split, data_item, tokenized, last_pos,
                   laterVars>>

\* make_multiple_position_supervised_data_module, dataset.py 590-619: one pass
\* of the loop over the records
MakeMultiplePosition ==
    /\ pc = "tokenize" /\ dataset_class = MultiplePosition
    /\ LET base_prompt_length == Len(data_item.prompt_ids)
           base_input_ids == data_item.input_ids
           output_ids == MaskPrefix(base_input_ids, base_prompt_length)
           intervention_locations ==
               get_intervention_locations(base_prompt_length, Put(kwargs, "pad_mode", "last"))
       IN  /\ tokenized' = [input_ids |-> base_input_ids, labels |-> output_ids]
           /\ last_pos' = base_prompt_length
           /\ result' = [input_ids |-> base_input_ids,
                         intervention_locations |-> intervention_locations,
                         labels |-> output_ids]
    /\ pc' = "done"
    /\ UNCHANGED <<kwargs, returned, dataset_class, data_split, data_item, laterVars>>

\* dataset.py 790-791
AudioTokenize ==
    /\ pc = "tokenize" /\ dataset_class = "ReftAudioDatasetFixed"
    /\ LET t == ReftAudioDatasetFixed_tokenize(data_item)
       IN  IF t.raises
           THEN /\ pc' = "error"
                /\ UNCHANGED <<kwargs, returned, dataset_class, data_split, data_item,
                               tokenized, last_pos, result, laterVars>>
           ELSE Tokenized(t)

\* dataset.py 792-799
AudioCompute ==
    /\ pc = "compute" /\ dataset_class = "ReftAudioDatasetFixed"
    /\ result' = ReftAudioDatasetFixed_compute_intervention_and_subspaces(
                     dataset_class, 0, data_item, tokenized, last_pos, kwargs)
    /\ pc' = "done"
    /\ UNCHANGED <<kwargs, returned, dataset_class, data_split, data_item, tokenized, last_pos,
                   laterVars>>

NextData ==
    \/ TokenizeClassification
    \/ TokenizeGeneration
    \/ TokenizeSupervised
    \/ TokenizePreference
    \/ TokenizeReward
    \/ MakeMultiplePosition
    \/ Compute
    \/ AudioTokenize
    \/ AudioCompute

SpecData == InitData /\ [][NextData]_vars

(***************************************************************************)
(* Access to the examples of a dataset object: __getitem__ of ReftDataset, *)
(* ReftRawDataset and ReftAudioDatasetFixed, and what the caller does to   *)
(* the example it was handed.  An example is a dict of objects; a field of *)
(* the handed example either is the very object the dataset keeps (it is   *)
(* in held.shares, and its value is read from store) or an object of the   *)
(* caller's own (its value is in held.own).                                *)
(***************************************************************************)

AccessClasses == {"ReftSupervisedDataset", "ReftRawDataset", "ReftAudioDatasetFixed"}

\* ReftDataset.__init__, dataset.py 158-162: the example kept for one record
ReftDataset_example(cls, id, item, kw) ==
    LET t == IF cls = "ReftRewardDataset" THEN ReftRewardDataset_tokenize(item, kw)
             ELSE ReftSupervisedDataset_tokenize(item)
    IN  ReftDataset_compute_intervention_and_subspaces(cls, id, item, t.result,
                                                       t.last_position, kw)

\* ReftRawDataset.__init__, dataset.py 283-326: the values appended for one
\* record, read back by index
ReftRawDataset_example(id, item, split, kw) ==
    LET base_prompt_length == Len(item.prompt_ids)
        input_ids == IF split = "train" THEN item.input_ids ELSE item.prompt_ids
        last_position == base_prompt_length
        intervention_locations ==
            get_intervention_locations(last_position, Put(kw, "pad_mode", "first"))
        padded == <<pad_token_id>> \o input_ids
        r1 == [input_ids |-> padded,
               attention_mask |-> AttentionMask(padded),
               intervention_locations |-> ShiftLocations(intervention_locations),
               id |-> id]
        r2 == IF split = "train"
              THEN Put(r1, "labels",
                       <<IGNORE_INDEX>> \o MaskPrefix(item.input_ids, base_prompt_length))
              ELSE r1
    IN  WithSubspaces(r2, item, kw)

\* ReftAudioDatasetFixed.__getitem__, dataset.py 790-799, for a record that
\* tokenizes
ReftAudioDatasetFixed_example(id, item, kw) ==
    LET t == ReftAudioDatasetFixed_tokenize(item)
    IN  ReftAudioDatasetFixed_compute_intervention_and_subspaces(
            "ReftAudioDatasetFixed", id, item, t.result, t.last_position, kw)

\* the configurations of the dataset objects that are accessed
AccessKwargs(cls) ==
    { kw \in DataKwargs(cls) :
        /\ kw.first_n = kw.last_n /\ kw.first_n > 0
        /\ kw.num_interventions = MaxDataInterventions
        /\ "share_weights" \notin DOMAIN kw }

\* the fields of a record or an example that hold a tensor or a list
ObjectFields(example) == DOMAIN example \ {"id"}

\* the records of the dataset objects that are accessed: no subspaces, every
\* sequence of at most MaxAccessLen elements, and audio records that tokenize
AccessItems(cls, kw) ==
    { item \in DataItems(IF cls = "ReftRawDataset" THEN "ReftSupervisedDataset" ELSE cls, kw) :
        /\ "subspaces" \notin DOMAIN item
        /\ \A f \in DOMAIN item : Len(item[f]) \in 1..MaxAccessLen
        /\ cls = "ReftAudioDatasetFixed" => ~ReftAudioDatasetFixed_tokenize(item).raises }

\* what the dataset object keeps for the record of index id: the assembled
\* example (dataset.py 162, 327-332) or, for the audio dataset, the record
\* itself (dataset.py 750)
Kept(cls, id, item, split, kw) ==
    IF cls = "ReftRawDataset" THEN ReftRawDataset_example(id, item, split, kw)
    ELSE IF cls = "ReftAudioDatasetFixed" THEN item
    ELSE ReftDataset_example(cls, id, item, kw)

InitAccess ==
    /\ dataset_class \in AccessClasses
    /\ data_split = "train"
    /\ kwargs \in AccessKwargs(dataset_class)
    /\ record_source \in IF dataset_class = "ReftAudioDatasetFixed"
                         THEN {"list", "arrow"} ELSE {"none"}
    /\ store \in { <<Kept(dataset_class, 0, a, data_split, kwargs),
                      Kept(dataset_class, 1, b, data_split, kwargs)>> :
                      a, b \in AccessItems(dataset_class, kwargs) }
    /\ held = <<>>
    /\ got = <<>>
    /\ first_seen = <<<<>>, <<>>>>
    /\ returned = <<>>
    /\ data_item = <<>>
    /\ tokenized = <<>>
    /\ last_pos = 0
    /\ result = <<>>
    /\ pc = "done"
    /\ NoBatch /\ NoStep

\* the example __getitem__(i) builds, and the fields of it that are objects
\* the dataset keeps
Handed(i) ==
    IF dataset_class = "ReftRawDataset"
    THEN \* dataset.py 344-355: a new dict of the stored objects
         [own |-> store[i + 1], shares |-> ObjectFields(store[i + 1])]
    ELSE IF dataset_class = "ReftAudioDatasetFixed"
    THEN \* dataset.py 790-799: the objects of the record go into the example as
         \* they are (dataset.py 759, 762, 769, 772); a list hands out its own
         \* record, an Arrow table decodes a new one on every access
         [own |-> ReftAudioDatasetFixed_example(i, store[i + 1], kwargs),
          shares |-> IF record_source = "list" THEN ObjectFields(store[i + 1]) ELSE {}]
    ELSE \* dataset.py 181: copy.deepcopy
         [own |-> store[i + 1], shares |-> {}]

GetItem ==
    \E i \in 0..(Len(store) - 1) :
        LET h == Handed(i)
        IN  /\ held' = [i |-> i, own |-> h.own, shares |-> h.shares]
            /\ got' = [i |-> i, example |-> h.own]
            /\ first_seen' = IF first_seen[i + 1] = <<>>
                             THEN [first_seen EXCEPT ![i + 1] = <<h.own>>]
                             ELSE first_seen
            /\ UNCHANGED <<kwargs, returned, dataVars, record_source, store,
                           collateVars, trainVars, ctcVars, evalVars>>

\* the value of a field of the handed example
HeldValue(f) == IF f \in held.shares THEN store[held.i + 1][f] ELSE held.own[f]

\* x with its first element (of its first row, for a list of lists) set to v
Poke(f, x, v) ==
    IF f = "intervention_locations"
    THEN IF Len(x) > 0 /\ Len(x[1]) > 0 THEN [x EXCEPT ![1][1] = v] ELSE x
    ELSE IF Len(x) > 0 THEN [x EXCEPT ![1] = v] ELSE x

\* the caller writes into an object of the handed example, as in
\* example["input_ids"][0] = v
MutateInPlace ==
    /\ held # <<>>
    /\ \E f \in ObjectFields(held.own), v \in Tokens :
          LET x == Poke(f, HeldValue(f), v)
          IN  /\ x # HeldValue(f)
              /\ IF f \in held.shares
                 THEN /\ store' = [store EXCEPT ![held.i + 1][f] = x]
                      /\ held' = held
                 ELSE /\ held' = [held EXCEPT !.own[f] = x]
                      /\ store' = store
    /\ UNCHANGED <<kwargs, returned, dataVars, record_source, got, first_seen,
                   collateVars, trainVars, ctcVars, evalVars>>

NextAccess ==
    \/ GetItem
    \/ MutateInPlace

SpecAccess == InitAccess /\ [][NextAccess]_vars

(***************************************************************************)
(* The collators: ReftDataCollator over DataCollatorForSeq2Seq, and        *)
(* ReftRewardCollator over tokenizer.pad.  A batch tensor is the sequence  *)
(* of its rows.                                                            *)
(***************************************************************************)

\* the length of the longest of the rows
Longest(rows) ==
    LET lens == { Len(rows[k]) : k \in DOMAIN rows }
    IN  CHOOSE m \in lens : \A l \in lens : l <= m

\* padding="longest" with the tokenizer's default padding side
PadRight(x, n, v) == x \o Repeat(v, n - Len(x))

\* torch can stack the matrices of the examples only when their shapes agree
Stackable(ms) ==
    \A j, k \in DOMAIN ms :
        /\ Len(ms[j]) = Len(ms[k])
        /\ \A l \in DOMAIN ms[j] : Len(ms[j][l]) = Len(ms[k][l])

\* the collator make_data_collator builds, reft_trainer.py 46-54: input_ids
\* padded with the pad id and attention_mask with 0 to the longest input_ids,
\* labels with -100 to the longest labels
DataCollatorForSeq2Seq(insts) ==
    LET n == Len(insts)
        L == Longest([k \in 1..n |-> insts[k].input_ids])
        max_label_length == Longest([k \in 1..n |-> insts[k].labels])
    IN  [input_ids |-> [k \in 1..n |-> PadRight(insts[k].input_ids, L, pad_token_id)],
         attention_mask |-> [k \in 1..n |-> PadRight(insts[k].attention_mask, L, 0)],
         labels |-> [k \in 1..n |->
                        PadRight(insts[k].labels, max_label_length, IGNORE_INDEX)],
         intervention_locations |-> [k \in 1..n |-> insts[k].intervention_locations],
         id |-> [k \in 1..n |-> insts[k].id]]

\* mutant of Truncate: the matrices are left as stored
Truncate_None(ms, max_seq_length) == ms

\* mutant of Truncate: the last max_seq_length entries of a row are kept
Truncate_Tail(ms, max_seq_length) ==
    [b \in DOMAIN ms |->
        [l \in DOMAIN ms[b] |->
            SubSeq(ms[b][l], Len(ms[b][l]) - Min(max_seq_length, Len(ms[b][l])) + 1,
                   Len(ms[b][l]))]]

\* dataset.py 121, 954; reft_trainer.py 42: [..., :max_seq_length]
Truncate(ms, max_seq_length) ==
    [b \in DOMAIN ms |->
        [l \in DOMAIN ms[b] |->
            SubSeq(ms[b][l], 1, Min(max_seq_length, Len(ms[b][l])))]]

\* ReftDataCollator.__call__, dataset.py 118-122 and reft_trainer.py 39-43
ReftDataCollator(insts) ==
    LET batch_inputs == DataCollatorForSeq2Seq(insts)
        max_seq_length == Len(batch_inputs.input_ids[1])
    IN  Put(batch_inputs, "intervention_locations",
            Truncate(batch_inputs.intervention_locations, max_seq_length))

\* the rewards 1.0 and 0.0 of dataset.py 928 and 936, in tenths
DefaultChosenReward == 10
DefaultRejectedReward == 0

\* dataset.py 924-931: the row of the chosen candidate of a feature
ChosenRow(feature) ==
    [input_ids |-> feature.chosen_output,
     attention_mask |-> feature.chosen_output_mask,
     reward |-> IF "chosen_reward" \in DOMAIN feature THEN feature.chosen_reward
                ELSE DefaultChosenReward,
     intervention_locations |-> feature.intervention_locations]

\* dataset.py 932-939: the row of the rejected candidate of a feature
RejectedRow(feature) ==
    [input_ids |-> feature.rejected_output,
     attention_mask |-> feature.rejected_output_mask,
     reward |-> IF "rejected_reward" \in DOMAIN feature THEN feature.rejected_reward
                ELSE DefaultRejectedReward,
     intervention_locations |-> feature.intervention_locations]

\* mutant of MergedFeatures: the rejected row of a feature comes first
MergedFeatures_RejectedFirst(features) ==
    [r \in 1..(2 * Len(features)) |->
        IF r % 2 = 1 THEN RejectedRow(features[(r + 1) \div 2])
        ELSE ChosenRow(features[r \div 2])]

\* dataset.py 921-939: two rows appended per feature, chosen then rejected
MergedFeatures(features) ==
    [r \in 1..(2 * Len(features)) |->
        IF r % 2 = 1 THEN ChosenRow(features[(r + 1) \div 2])
        ELSE RejectedRow(features[r \div 2])]

\* ReftRewardCollator.__call__, dataset.py 920-955
ReftRewardCollator(features) ==
    LET merged_features == MergedFeatures(features)
        n == Len(merged_features)
        L == Longest([k \in 1..n |-> merged_features[k].input_ids])
        max_seq_length == L
    IN  [input_ids |-> [k \in 1..n |-> PadRight(merged_features[k].input_ids, L, pad_token_id)],
         attention_mask |-> [k \in 1..n |-> PadRight(merged_features[k].attention_mask, L, 0)],
         reward |-> [k \in 1..n |-> merged_features[k].reward],
         intervention_locations |->
             Truncate([k \in 1..n |-> merged_features[k].intervention_locations],
                      max_seq_length)]

CollateClasses == {"ReftSupervisedDataset", "ReftRewardDataset"}

\* the numbers of examples of a batch
BatchSizes == {1, 2}

\* the configurations of the datasets whose examples are batched
CollateKwargs(cls) ==
    IF cls = "ReftRewardDataset"
    THEN { kw \in DataKwargs(cls) : kw.num_interventions = MaxDataInterventions }
    ELSE { req @@ sw :
             req \in [first_n : 0..MaxCollateN, last_n : 0..MaxCollateN,
                      num_interventions : {MaxDataInterventions}],
             sw \in {<<>>, [share_weights |-> TRUE]} }

\* the id sequences of the records that are batched: a run of ids and one more
BatchSeqs == { PromptIds(n) \o <<t>> : n \in 0..(MaxBatchLen - 1), t \in Tokens }

\* the records that are batched
CollateItems(cls, kw) ==
    IF cls = "ReftRewardDataset"
    THEN IF "conv_A_reward_field" \in DOMAIN kw
         THEN [conv_A_ids : BatchSeqs, conv_B_ids : BatchSeqs,
               reward_A : Rewards, reward_B : Rewards]
         ELSE [conv_A_ids : BatchSeqs, conv_B_ids : BatchSeqs]
    ELSE { [prompt_ids |-> PromptIds(n), input_ids |-> PromptIds(n) \o <<t>>] :
             n \in 1..MaxPromptLen, t \in Tokens }

InitCollate ==
    /\ dataset_class \in CollateClasses
    /\ data_split = "train"
    /\ kwargs \in CollateKwargs(dataset_class)
    /\ \E n \in BatchSizes :
          \E items \in [1..n -> CollateItems(dataset_class, kwargs)] :
              instances = [k \in 1..n |->
                              ReftDataset_example(dataset_class, k - 1, items[k], kwargs)]
    /\ batch = <<>>
    /\ returned = <<>>
    /\ data_item = <<>>
    /\ tokenized = <<>>
    /\ last_pos = 0
    /\ result = <<>>
    /\ pc = "collate"
    /\ NoDataset /\ NoStep

\* the collator's batch, or the error of stacking matrices of different shapes
Collated(b) ==
    /\ IF Stackable([k \in DOMAIN instances |-> instances[k].intervention_locations])
       THEN batch' = b /\ pc' = "done"
       ELSE batch' = batch /\ pc' = "error"
    /\ UNCHANGED <<kwargs, returned, dataset_class, data_split, data_item, tokenized,
                   last_pos, result, instances, accessVars, trainVars, ctcVars, evalVars>>

DataCollate ==
    /\ pc = "collate" /\ dataset_class # "ReftRewardDataset"
    /\ Collated(ReftDataCollator(instances))

RewardCollate ==
    /\ pc = "collate" /\ dataset_class = "ReftRewardDataset"
    /\ Collated(ReftRewardCollator(instances))

NextCollate ==
    \/ DataCollate
    \/ RewardCollate

SpecCollate == InitCollate /\ [][NextCollate]_vars

(***************************************************************************)
(* The training step: compute_loss of the trainer (reft_trainer.py         *)
(* 166-256), of ReftSrTrainer (83-146) and of                              *)
(* ReftTrainerForSequenceClassification (261-311).  A tensor of the batch  *)
(* is [dim, data]; the call of the intervenable model is recorded in       *)
(* forward, and outcome names the loss function whose value is returned or *)
(* the exception that ends the step.                                       *)
(***************************************************************************)

\* mutant of Permute102: the axes are left in place
Permute102_None(M) == M

\* tensor.permute(1, 0, 2).tolist() of a batch x layers x positions tensor
Permute102(M) == [l \in 1..Len(M[1]) |-> [b \in 1..Len(M) |-> M[b][l]]]

\* mutant of UnitLocations: position 0 for every example when the batch has
\* no intervention_locations
UnitLocations_DefaultWhenAbsent(inp) ==
    IF "intervention_locations" \in DOMAIN inp /\ inp.intervention_locations.dim = 3
    THEN [kind |-> "list", base |-> Permute102(inp.intervention_locations.data)]
    ELSE [kind |-> "int", base |-> 0]

\* reft_trainer.py 91-103, 173-182: the unit_locations argument
UnitLocations(inp) ==
    IF "intervention_locations" \in DOMAIN inp
    THEN IF inp.intervention_locations.dim = 3
         THEN [kind |-> "list", base |-> Permute102(inp.intervention_locations.data)]
         ELSE [kind |-> "int", base |-> 0]
    ELSE [kind |-> "None"]

\* reft_trainer.py 105-121, 184-200: the field the if/elif chain builds the
\* payload from, or the ValueError of its else
InputStructure(inp) ==
    IF "input_ids" \in DOMAIN inp THEN "input_ids"
    ELSE IF "input_values" \in DOMAIN inp THEN "input_values"
    ELSE IF "input_features" \in DOMAIN inp THEN "input_features"
    ELSE "ValueError"

\* reft_trainer.py 106-120, 185-199: the payload for the chosen field;
\* inputs.get("attention_mask") is None when the mask is absent
Payload(inp, field) ==
    Put(Put(<<>>, field, inp[field]),
        "attention_mask",
        IF "attention_mask" \in DOMAIN inp THEN inp.attention_mask ELSE "None")

\* reft_trainer.py 125-134, 207-212, 274-282: the call of the intervenable model
Forward(inp, data, unit_locations) ==
    [data |-> data,
     unit_locations |-> unit_locations,
     labels |-> inp.labels,
     subspaces |-> IF "subspaces" \in DOMAIN inp
                   THEN [kind |-> "list", value |-> Permute102(inp.subspaces.data)]
                   ELSE [kind |-> "None"]]

\* reft_trainer.py 217-247: the loss of the trainer for a problem type
TrainerLoss(problem_type) ==
    LET pt == IF problem_type = "None" THEN "single_label_classification" ELSE problem_type
    IN  IF pt = "ctc" THEN "CTCLoss"
        ELSE IF pt = "single_label_classification" THEN "CrossEntropyLoss"
        ELSE IF pt = "multi_label_classification" THEN "BCEWithLogitsLoss"
        ELSE "ValueError"

\* reft_trainer.py 287-308: the loss of the sequence classification trainer;
\* no branch assigns loss for another type and the return raises
SequenceClassificationLoss(cfg, labels) ==
    LET pt == IF cfg.problem_type = "None"
              THEN IF cfg.num_labels = 1 THEN "regression"
                   ELSE IF cfg.num_labels > 1 /\ labels.dtype = "long"
                   THEN "single_label_classification"
                   ELSE "multi_label_classification"
              ELSE cfg.problem_type
    IN  IF pt = "regression" THEN "MSELoss"
        ELSE IF pt = "single_label_classification" THEN "CrossEntropyLoss"
        ELSE IF pt = "multi_label_classification" THEN "BCEWithLogitsLoss"
        ELSE "UnboundLocalError"

\* reft_trainer.py 222-231, the CTC branch: (labels != pad_token_id).sum(dim=1)
\* of a row, with the pad id of the model's config
CountNotPad(row) == Cardinality({ i \in DOMAIN row : row[i] # pad_token_id })

\* reft_trainer.py 224-231: input_lengths is time_steps for every example of
\* the batch, target_lengths counts the labels that are not the pad id
CtcLengths(size, labels) ==
    [input_lengths |-> Repeat(size.time_steps, size.batch_size),
     target_lengths |-> [b \in DOMAIN labels |-> CountNotPad(labels[b])]]

\* the values of outcome that are a returned loss
LossFunctions == {"CTCLoss", "CrossEntropyLoss", "BCEWithLogitsLoss", "MSELoss"}

TrainerClasses == {"ReftTrainer", "ReftSrTrainer", "ReftTrainerForSequenceClassification"}

\* self.model.model.config.problem_type, with a type no trainer knows
ProblemTypes ==
    {"None", "ctc", "single_label_classification", "multi_label_classification",
     "regression", "other"}

\* a batch x layers x positions tensor whose entries are all different
Tensor3(B, L, P) ==
    [dim |-> 3,
     data |-> [b \in 1..B |-> [l \in 1..L |-> [p \in 1..P |->
                  ((b - 1) * L + (l - 1)) * P + (p - 1)]]]]

\* a batch x positions tensor
Tensor2(B, P) ==
    [dim |-> 2, data |-> [b \in 1..B |-> [p \in 1..P |-> (b - 1) * P + (p - 1)]]]

\* the batches handed to a training step: every subset of the three modality
\* fields, with or without attention_mask, intervention_locations (of three
\* axes or of two) and subspaces, and labels of either dtype
TrainInputs ==
    { mod @@ am @@ il @@ sub @@ lab :
        mod \in { [f \in fs |-> Tensor2(1, 1)] :
                     fs \in SUBSET {"input_ids", "input_values", "input_features"} },
        am \in {<<>>, [attention_mask |-> Tensor2(1, 1)]},
        il \in {<<>>}
                \cup { [intervention_locations |-> Tensor3(B, L, P)] :
                         B \in 1..MaxTrainBatch, L \in 1..MaxTrainLayers,
                         P \in 1..MaxTrainPositions }
                \cup { [intervention_locations |-> Tensor2(B, P)] :
                         B \in 1..MaxTrainBatch, P \in 1..MaxTrainPositions },
        sub \in {<<>>}
                 \cup { [subspaces |-> Tensor3(B, L, 1)] :
                          B \in 1..MaxTrainBatch, L \in 1..MaxTrainLayers },
        lab \in { [labels |-> [dtype |-> d]] : d \in {"long", "float"} } }

InitTrain ==
    /\ trainer \in [class : TrainerClasses, problem_type : ProblemTypes, num_labels : {1, 2}]
    /\ inputs \in TrainInputs
    /\ forward = <<>>
    /\ outcome = "none"
    /\ kwargs = <<>>
    /\ returned = <<>>
    /\ dataset_class = "none"
    /\ data_split = "train"
    /\ data_item = <<>>
    /\ tokenized = <<>>
    /\ last_pos = 0
    /\ result = <<>>
    /\ pc = "step"
    /\ NoDataset /\ NoBatch /\ NoCtc /\ NoEval

\* the step ends with exception e before the intervenable model is called
Raises(e) ==
    /\ outcome' = e
    /\ forward' = forward

\* the intervenable model is called and the step ends with the loss or with the
\* exception of the problem type dispatch
Calls(f, end) ==
    /\ forward' = f
    /\ outcome' = end

\* reft_trainer.py 91-134 and 173-212: unit locations, payload and call, common
\* to the trainer and ReftSrTrainer
ForwardPass(end) ==
    LET field == InputStructure(inputs)
    IN  IF field = "ValueError" THEN Raises("ValueError")
        ELSE IF field = "input_ids" /\ "attention_mask" \notin DOMAIN inputs
        THEN Raises("KeyError")
        ELSE Calls(Forward(inputs, Payload(inputs, field), UnitLocations(inputs)), end)

\* compute_loss, reft_trainer.py 166-256
ComputeLoss ==
    /\ pc = "step" /\ trainer.class = "ReftTrainer"
    /\ ForwardPass(TrainerLoss(trainer.problem_type))
    /\ lengths' = IF outcome' = "CTCLoss" /\ "data" \in DOMAIN inputs.labels
                  THEN CtcLengths(logits_size, inputs.labels.data)
                  ELSE lengths
    /\ pc' = "done"
    /\ UNCHANGED <<kwargs, returned, dataset_class, data_split, data_item, tokenized,
                   last_pos, result, accessVars, collateVars, trainer, inputs,
                   logits_size, evalVars>>

\* ReftSrTrainer.compute_loss, reft_trainer.py 83-146: always cross entropy
SrComputeLoss ==
    /\ pc = "step" /\ trainer.class = "ReftSrTrainer"
    /\ ForwardPass("CrossEntropyLoss")
    /\ pc' = "done"
    /\ UNCHANGED <<kwargs, returned, dataset_class, data_split, data_item, tokenized,
                   last_pos, result, accessVars, collateVars, trainer, inputs, ctcVars, evalVars>>

\* reft_trainer.py 267-272: unit_locations of the sequence classification
\* step, None when the batch has no intervention_locations
SequenceClassificationUnitLocations(inp) ==
    IF "intervention_locations" \in DOMAIN inp
    THEN [kind |-> "list", base |-> Permute102(inp.intervention_locations.data)]
    ELSE [kind |-> "None"]

\* reft_trainer.py 267-282: the exception that ends the sequence classification
\* step before the intervenable model is called, or "none": permute(1, 0, 2)
\* of a tensor of two axes raises, and input_ids and attention_mask are indexed
SequenceClassificationRejects(inp) ==
    IF "intervention_locations" \in DOMAIN inp /\ inp.intervention_locations.dim # 3
    THEN "RuntimeError"
    ELSE IF "input_ids" \notin DOMAIN inp \/ "attention_mask" \notin DOMAIN inp
    THEN "KeyError"
    ELSE "none"

\* ReftTrainerForSequenceClassification.compute_loss, reft_trainer.py 261-311:
\* the payload is always input_ids with attention_mask
SequenceClassificationComputeLoss ==
    /\ pc = "step" /\ trainer.class = "ReftTrainerForSequenceClassification"
    /\ IF SequenceClassificationRejects(inputs) # "none"
       THEN Raises(SequenceClassificationRejects(inputs))
       ELSE Calls(Forward(inputs, Payload(inputs, "input_ids"),
                          SequenceClassificationUnitLocations(inputs)),
                  SequenceClassificationLoss(trainer, inputs.labels))
    /\ pc' = "done"
    /\ UNCHANGED <<kwargs, returned, dataset_class, data_split, data_item, tokenized,
                   last_pos, result, accessVars, collateVars, trainer, inputs, ctcVars, evalVars>>

NextTrain ==
    \/ ComputeLoss
    \/ SrComputeLoss
    \/ SequenceClassificationComputeLoss

SpecTrain == InitTrain /\ [][NextTrain]_vars

(***************************************************************************)
(* ReftTrainerForSequenceClassification.evaluate, reft_trainer.py 313-368.  *)
(***************************************************************************)

\* the numbers of batches of the evaluation dataloader
LoaderSizes == {0, 1, 2}

\* a batch x 1 tensor whose first entry is tag
Tagged(B, tag) == [b \in 1..B |-> <<tag + b - 1>>]

\* the batches of the dataloader: input_ids, attention_mask and labels, with or
\* without intervention_locations (of three axes or of two) and subspaces
EvalInputs ==
    UNION { { base @@ il @@ sub :
                base \in { [input_ids |-> [dim |-> 2, data |-> Tagged(B, tag)],
                            attention_mask |-> [dim |-> 2, data |-> Tagged(B, 1)],
                            labels |-> [dtype |-> "long", data |-> Tagged(B, tag)]] :
                              tag \in Tokens },
                il \in {<<>>, [intervention_locations |-> Tensor2(B, 1)]}
                        \cup { [intervention_locations |-> Tensor3(B, L, 1)] :
                                 L \in 1..MaxTrainLayers },
                sub \in {<<>>, [subspaces |-> Tensor3(B, 1, 1)]} } :
            B \in 1..MaxTrainBatch }

\* cf_outputs.logits: one row per example of the batch, computed from its ids
Logits(inp) == [b \in DOMAIN inp.input_ids.data |-> [logits_of |-> inp.input_ids.data[b]]]

\* mutant of Cat: the tensors are joined last to first
RECURSIVE Cat_Reversed(_)
Cat_Reversed(tensors) ==
    IF tensors = <<>> THEN <<>> ELSE Cat_Reversed(Tail(tensors)) \o Head(tensors)

\* torch.cat(tensors, dim=0) of a list that is not empty, reft_trainer.py 352-353
RECURSIVE Cat(_)
Cat(tensors) ==
    IF tensors = <<>> THEN <<>> ELSE Head(tensors) \o Cat(Tail(tensors))

InitEval ==
    /\ \E n \in LoaderSizes : loader \in [1..n -> EvalInputs]
    /\ eval_step = 0
    /\ all_preds = <<>>
    /\ all_labels = <<>>
    /\ calls = <<>>
    /\ trainer = "none"
    /\ inputs = <<>>
    /\ forward = <<>>
    /\ outcome = "none"
    /\ kwargs = <<>>
    /\ returned = <<>>
    /\ dataset_class = "none"
    /\ data_split = "train"
    /\ data_item = <<>>
    /\ tokenized = <<>>
    /\ last_pos = 0
    /\ result = <<>>
    /\ pc = "eval"
    /\ NoDataset /\ NoBatch /\ NoCtc

\* evaluate ends with exception e
EvalRaises(e) ==
    /\ outcome' = e
    /\ pc' = "error"
    /\ UNCHANGED <<eval_step, all_preds, all_labels, calls>>

\* reft_trainer.py 340-350: one pass of the loop over the dataloader.  The
\* batch's intervention_locations is indexed without a test, the payload is
\* input_ids with attention_mask, and neither subspaces nor labels are passed.
EvalBatch ==
    /\ pc = "eval" /\ eval_step < Len(loader)
    /\ LET inp == loader[eval_step + 1]
       IN  IF "intervention_locations" \notin DOMAIN inp THEN EvalRaises("KeyError")
           ELSE IF inp.intervention_locations.dim # 3 THEN EvalRaises("RuntimeError")
           ELSE IF "input_ids" \notin DOMAIN inp \/ "attention_mask" \notin DOMAIN inp
           THEN EvalRaises("KeyError")
           ELSE /\ calls' = Append(calls,
                        [op |-> "intervenable",
                         data |-> Payload(inp, "input_ids"),
                         unit_locations |->
                             [kind |-> "list",
                              base |-> Permute102(inp.intervention_locations.data)]])
                /\ all_preds' = Append(all_preds, Logits(inp))
                /\ all_labels' = Append(all_labels, inp.labels.data)
                /\ eval_step' = eval_step + 1
                /\ UNCHANGED <<pc, outcome>>
    /\ UNCHANGED <<kwargs, returned, dataset_class, data_split, data_item, tokenized,
                   last_pos, result, accessVars, collateVars, trainer, inputs, forward,
                   ctcVars, loader>>

\* reft_trainer.py 352-368: after the loop the lists are concatenated and
\* compute_metrics is called; torch.cat of an empty list raises
EvalMetrics ==
    /\ pc = "eval" /\ eval_step = Len(loader)
    /\ IF all_preds = <<>> THEN EvalRaises("RuntimeError")
       ELSE /\ calls' = Append(calls,
                    [op |-> "compute_metrics",
                     predictions |-> Cat(all_preds),
                     label_ids |-> Cat(all_labels)])
            /\ outcome' = "metrics"
            /\ pc' = "done"
            /\ UNCHANGED <<eval_step, all_preds, all_labels>>
    /\ UNCHANGED <<kwargs, returned, dataset_class, data_split, data_item, tokenized,
                   last_pos, result, accessVars, collateVars, trainer, inputs, forward,
                   ctcVars, loader>>

NextEval ==
    \/ EvalBatch
    \/ EvalMetrics

SpecEval == InitEval /\ [][NextEval]_vars

(***************************************************************************)
(* A training step of the CTC problem type over a batch of the collator of *)
(* make_data_collator, reft_trainer.py 46-54 and 222-238.                  *)
(***************************************************************************)

\* the label sequences of the examples: ids that are not the blank (pad) id
CtcLabelSeqs ==
    UNION { [1..n -> {pad_token_id + 1, pad_token_id + 2}] : n \in 1..MaxLabelLen }

\* an example of a batch of a CTC step
CtcExample(id, labels) ==
    [input_ids |-> <<pad_token_id + 1>>,
     attention_mask |-> <<1>>,
     labels |-> labels,
     intervention_locations |-> <<<<0>>>>,
     id |-> id]

\* the tensors of a collated batch, as compute_loss reads them
BatchTensors(b) ==
    [input_ids |-> [dim |-> 2, data |-> b.input_ids],
     attention_mask |-> [dim |-> 2, data |-> b.attention_mask],
     intervention_locations |-> [dim |-> 3, data |-> b.intervention_locations],
     labels |-> [dtype |-> "long", data |-> b.labels]]

\* the model's config says ctc; the logits the model will return have one row
\* per example and any number of time steps
InitCtc ==
    /\ trainer = [class |-> "ReftTrainer", problem_type |-> "ctc", num_labels |-> 2]
    /\ \E n \in BatchSizes :
          /\ \E ls \in [1..n -> CtcLabelSeqs] :
                instances = [k \in 1..n |-> CtcExample(k - 1, ls[k])]
          /\ \E t \in 1..MaxTimeSteps :
                logits_size = [batch_size |-> n, time_steps |-> t]
    /\ batch = <<>>
    /\ inputs = <<>>
    /\ forward = <<>>
    /\ outcome = "none"
    /\ lengths = <<>>
    /\ kwargs = <<>>
    /\ returned = <<>>
    /\ dataset_class = "none"
    /\ data_split = "train"
    /\ data_item = <<>>
    /\ tokenized = <<>>
    /\ last_pos = 0
    /\ result = <<>>
    /\ pc = "collate"
    /\ NoDataset /\ NoEval

\* the dataloader collates the examples with the collator of make_data_collator
\* and hands the batch to the training step
CollateForStep ==
    /\ pc = "collate"
    /\ batch' = ReftDataCollator(instances)
    /\ inputs' = BatchTensors(batch')
    /\ pc' = "step"
    /\ UNCHANGED <<kwargs, returned, dataset_class, data_split, data_item, tokenized,
                   last_pos, result, instances, accessVars, trainer, forward, outcome,
                   ctcVars, evalVars>>

NextCtc ==
    \/ CollateForStep
    \/ ComputeLoss

SpecCtc == InitCtc /\ [][NextCtc]_vars

(***************************************************************************)
(* Claims about the assembly of an example, checked under SpecData.        *)
(***************************************************************************)
\* what the Position Selector returns for the record at hand, pad mode first
SelectorOutput == get_intervention_locations(last_pos, Put(kwargs, "pad_mode", "first"))

\* C7: after ReftDataset.compute_intervention_and_subspaces (pad mode first) the
\* matrix is the selector's with every valid index moved to a value > 0 and every
\* sentinel to 0, and input_ids / labels, where present, are one element longer
\* with the pad id / the ignore label in front of the elements they had.
C7_PadThenShift ==
    (pc = "done" /\ dataset_class \in ReftDatasetClasses) =>
        /\ DOMAIN result.intervention_locations = DOMAIN SelectorOutput
        /\ \A l \in DOMAIN SelectorOutput :
              /\ DOMAIN result.intervention_locations[l] = DOMAIN SelectorOutput[l]
              /\ \A p \in DOMAIN SelectorOutput[l] :
                    IF SelectorOutput[l][p] = -1
                    THEN result.intervention_locations[l][p] = 0
                    ELSE /\ result.intervention_locations[l][p] > 0
                         /\ result.intervention_locations[l][p] = SelectorOutput[l][p] + 1
        /\ \A field \in {"input_ids", "labels"} \cap DOMAIN tokenized :
              /\ field \in DOMAIN result
              /\ Len(result[field]) = Len(tokenized[field]) + 1
              /\ result[field][1] = (IF field = "labels" THEN IGNORE_INDEX ELSE pad_token_id)
              /\ \A i \in DOMAIN tokenized[field] : result[field][i + 1] = tokenized[field][i]

\* an assembled example with labels whose matrix holds a shifted sentinel and a
\* shifted valid index
C7_Witness ==
    /\ pc = "done"
    /\ dataset_class = "ReftGenerationDataset"
    /\ "labels" \in DOMAIN result
    /\ Len(result.input_ids) = 4
    /\ result.intervention_locations = << <<1, 2, 0>> >>

\* C8 as stated: the preference example gets no pad-then-shift: its matrix is the
\* selector's output for last_position = len(prompt) with nothing added, and
\* input_ids and labels are as tokenize left them.
C8_NoPadThenShift ==
    (pc = "done" /\ dataset_class = "ReftPreferenceDataset") =>
        /\ last_pos = Len(data_item.prompt_ids)
        /\ result.intervention_locations = SelectorOutput
        /\ result.input_ids = tokenized.input_ids
        /\ "labels" \in DOMAIN tokenized => result.labels = tokenized.labels

\* C9 as stated: the audio example is finalized as the text examples are: its
\* matrix is the selector's output for last_position = the number of features
\* with 1 added to every entry, each padded field present is one element longer,
\* and an attention mask is derived.
C9_AudioFinalize ==
    (pc = "done" /\ dataset_class = "ReftAudioDatasetFixed") =>
        /\ DOMAIN result.intervention_locations = DOMAIN SelectorOutput
        /\ \A l \in DOMAIN SelectorOutput :
              /\ DOMAIN result.intervention_locations[l] = DOMAIN SelectorOutput[l]
              /\ \A p \in DOMAIN SelectorOutput[l] :
                    result.intervention_locations[l][p] = SelectorOutput[l][p] + 1
        /\ \A field \in {"input_values", "labels"} \cap DOMAIN tokenized :
              Len(result[field]) = Len(tokenized[field]) + 1
        /\ "attention_mask" \in DOMAIN result

\* C10: the labels of the generation and supervised assemblers have the length of
\* input_ids, hold the ignore label at every position before last_position + 1 and
\* the input id at every position from there on (position i is element i + 1).
C10_LabelMask ==
    (pc \in {"compute", "done"}
     /\ dataset_class \in {"ReftGenerationDataset", "ReftSupervisedDataset"}) =>
        /\ Len(tokenized.labels) = Len(tokenized.input_ids)
        /\ \A i \in 0..(Len(tokenized.input_ids) - 1) :
              IF i < last_pos + 1
              THEN tokenized.labels[i + 1] = IGNORE_INDEX
              ELSE tokenized.labels[i + 1] = tokenized.input_ids[i + 1]

\* a supervised record tokenized to a prompt of two ids and a completion of one
C10_Witness ==
    /\ pc = "compute"
    /\ dataset_class = "ReftSupervisedDataset"
    /\ last_pos = 1
    /\ tokenized.input_ids = <<1, 1, 0>>
    /\ tokenized.labels = <<IGNORE_INDEX, IGNORE_INDEX, 0>>

\* the reward record of the state has been tokenized, with reward scores read
RewardScored ==
    /\ pc \in {"compute", "done"}
    /\ dataset_class = "ReftRewardDataset"
    /\ "conv_A_reward_field" \in DOMAIN kwargs

\* C11: when reward scores are supplied, chosen_reward is at least
\* rejected_reward; when B's score exceeds A's, the chosen tokens and score are
\* B's and the rejected ones A's; otherwise, on a tie too, A stays chosen.
C11_HigherRewardChosen ==
    RewardScored =>
        /\ tokenized.chosen_reward >= tokenized.rejected_reward
        /\ IF data_item.reward_B > data_item.reward_A
           THEN /\ tokenized.chosen_output = data_item.conv_B_ids
                /\ tokenized.rejected_output = data_item.conv_A_ids
                /\ tokenized.chosen_reward = data_item.reward_B
                /\ tokenized.rejected_reward = data_item.reward_A
           ELSE /\ tokenized.chosen_output = data_item.conv_A_ids
                /\ tokenized.rejected_output = data_item.conv_B_ids
                /\ tokenized.chosen_reward = data_item.reward_A
                /\ tokenized.rejected_reward = data_item.reward_B

\* A scored 0.3 and B scored 0.9 with different tokens: B has become chosen
C11_Witness ==
    /\ RewardScored
    /\ data_item.reward_A = 3 /\ data_item.reward_B = 9
    /\ data_item.conv_A_ids = <<0, 1>> /\ data_item.conv_B_ids = <<1>>
    /\ tokenized.chosen_output = <<1>>
    /\ tokenized.chosen_reward = 9

\* the length of the longest common prefix of two id sequences
CommonPrefixLength(a, b) ==
    Cardinality({ k \in 1..Min(Len(a), Len(b)) : \A j \in 1..k : a[j] = b[j] })

\* C12: last_position of a reward example is the length of the longest common
\* prefix of the chosen and the rejected ids, minus 1.
C12_CommonPrefixMinusOne ==
    (pc \in {"compute", "done"} /\ dataset_class = "ReftRewardDataset") =>
        last_pos = CommonPrefixLength(tokenized.chosen_output,
                                      tokenized.rejected_output) - 1

\* a distinct label field is configured for the classification assembler
DistinctLabelField ==
    /\ "label_field" \in DOMAIN kwargs
    /\ kwargs.label_field # "None"
    /\ kwargs.label_field # kwargs.input_field

\* C20: the classification assembler always produces labels: the tokenized label
\* field when a distinct label field is configured, and a copy of the input ids
\* when the label field is unset, None or the input field.
C20_LabelsAlways ==
    (dataset_class = "ReftClassificationDataset" /\ pc # "tokenize") =>
        /\ "labels" \in DOMAIN tokenized
        /\ tokenized.labels = IF DistinctLabelField THEN data_item.label_ids
                              ELSE tokenized.input_ids

\* C19: whatever accesses and in-place mutations of handed examples came
\* before, an access of index i returns an example equal to the one the first
\* access of i returned.
C19_AccessIndependent ==
    got # <<>> => <<got.example>> = first_seen[got.i + 1]

\* ReftDataCollator has returned a batch
DataCollated == pc = "done" /\ batch # <<>> /\ dataset_class # "ReftRewardDataset"

\* the padded maximum sequence length of the batch
BatchLength == Len(batch.input_ids[1])

\* C13 as claimed: every row of the returned location matrix has the length of
\* the padded sequences, whatever the stored width.
C13_WidthIsLength ==
    DataCollated =>
        \A b \in DOMAIN batch.intervention_locations :
            \A l \in DOMAIN batch.intervention_locations[b] :
                Len(batch.intervention_locations[b][l]) = BatchLength

\* C13: every row of the returned location matrix is the stored row cut to the
\* padded sequence length L: its length is the smaller of the stored width P and
\* L, so L when P >= L, and a narrower row is never extended.
C13_WidthIsMin ==
    DataCollated =>
        \A b \in DOMAIN batch.intervention_locations :
            \A l \in DOMAIN batch.intervention_locations[b] :
                LET stored == instances[b].intervention_locations[l]
                    row == batch.intervention_locations[b][l]
                IN  /\ Len(row) = Min(Len(stored), BatchLength)
                    /\ row = SubSeq(stored, 1, Len(row))

\* a batch of one example padded to length 3 whose stored rows of width 4 came
\* back with width 3
C13_Witness ==
    /\ DataCollated
    /\ Len(instances) = 1
    /\ BatchLength = 3
    /\ Len(instances[1].intervention_locations) > 0
    /\ Len(instances[1].intervention_locations[1]) = 4
    /\ Len(batch.intervention_locations[1][1]) = 3

\* ReftRewardCollator has returned a batch
RewardCollated == pc = "done" /\ batch # <<>> /\ dataset_class = "ReftRewardDataset"

\* C14: the reward collator turns N examples into 2N rows; rows 2k and 2k+1
\* (rows 2k+1 and 2k+2 counted from one) are the chosen and the rejected
\* sequence of example k, padded to the batch length, each with its own reward,
\* the stored one or 1.0 and 0.0, and both with the same location matrix, the
\* one of example k.
C14_TwoRowsPerExample ==
    RewardCollated =>
        /\ Len(batch.input_ids) = 2 * Len(instances)
        /\ Len(batch.reward) = 2 * Len(instances)
        /\ Len(batch.intervention_locations) = 2 * Len(instances)
        /\ \A k \in 0..(Len(instances) - 1) :
              LET feature == instances[k + 1]
                  scored == "chosen_reward" \in DOMAIN feature
              IN  /\ batch.input_ids[2 * k + 1] =
                         PadRight(feature.chosen_output, BatchLength, pad_token_id)
                  /\ batch.input_ids[2 * k + 2] =
                         PadRight(feature.rejected_output, BatchLength, pad_token_id)
                  /\ batch.reward[2 * k + 1] =
                         IF scored THEN feature.chosen_reward ELSE DefaultChosenReward
                  /\ batch.reward[2 * k + 2] =
                         IF scored THEN feature.rejected_reward ELSE DefaultRejectedReward
                  /\ batch.intervention_locations[2 * k + 1] =
                         batch.intervention_locations[2 * k + 2]
                  /\ batch.intervention_locations[2 * k + 1] =
                         Truncate(<<feature.intervention_locations>>, BatchLength)[1]

\* two unscored examples with different candidates have become four rows with
\* the rewards 1.0, 0.0, 1.0, 0.0
C14_Witness ==
    /\ RewardCollated
    /\ Len(instances) = 2
    /\ batch.reward = <<DefaultChosenReward, DefaultRejectedReward,
                        DefaultChosenReward, DefaultRejectedReward>>
    /\ batch.input_ids[1] # batch.input_ids[2]
    /\ batch.input_ids[3] # batch.input_ids[4]
    /\ batch.input_ids[1] # batch.input_ids[3]

\* the training step has called the intervenable model
Forwarded == pc = "done" /\ forward # <<>>

\* U is M with its first two axes exchanged: U[l][b][p] = M[b][l][p]
Transposed(U, M) ==
    /\ Len(U) = Len(M[1])
    /\ \A l \in 1..Len(U) :
          /\ Len(U[l]) = Len(M)
          /\ \A b \in 1..Len(M) :
                /\ Len(U[l][b]) = Len(M[b][l])
                /\ \A p \in 1..Len(M[b][l]) : U[l][b][p] = M[b][l][p]

\* C15: for a batch with a location matrix M of three axes (batch, layers,
\* positions) the unit locations U handed to the intervenable model satisfy
\* U[l][b][p] = M[b][l][p], and subspaces, when present, are transposed alike.
C15_LayerMajor ==
    Forwarded =>
        /\ ("intervention_locations" \in DOMAIN inputs /\ inputs.intervention_locations.dim = 3)
              => /\ forward.unit_locations.kind = "list"
                 /\ Transposed(forward.unit_locations.base, inputs.intervention_locations.data)
        /\ "subspaces" \in DOMAIN inputs
              => /\ forward.subspaces.kind = "list"
                 /\ Transposed(forward.subspaces.value, inputs.subspaces.data)

\* a batch of two examples, one layer and two positions, with subspaces, has
\* gone through the trainer's step
C15_Witness ==
    /\ Forwarded
    /\ trainer.class = "ReftTrainer"
    /\ "intervention_locations" \in DOMAIN inputs
    /\ inputs.intervention_locations = Tensor3(2, 1, 2)
    /\ "subspaces" \in DOMAIN inputs
    /\ forward.unit_locations.kind = "list"
    /\ forward.unit_locations.base = <<<<<<0, 1>>, <<2, 3>>>>>>

\* C16 as claimed: for a batch without intervention_locations the unit
\* locations handed to the intervenable model are the default, position 0 for
\* every example.
C16_DefaultWhenAbsent ==
    (Forwarded /\ "intervention_locations" \notin DOMAIN inputs) =>
        /\ forward.unit_locations.kind = "int"
        /\ forward.unit_locations.base = 0

\* C16: for a batch without intervention_locations the unit locations handed
\* to the intervenable model are None; the default, position 0 for every
\* example, is handed over exactly when the batch has an intervention_locations
\* tensor that is not of three axes, by the trainer and by ReftSrTrainer (the
\* sequence classification trainer has no default).
C16_NoneWhenAbsent ==
    Forwarded =>
        /\ "intervention_locations" \notin DOMAIN inputs
              => forward.unit_locations.kind = "None"
        /\ forward.unit_locations.kind = "int"
              <=> /\ "intervention_locations" \in DOMAIN inputs
                  /\ inputs.intervention_locations.dim # 3
        /\ forward.unit_locations.kind = "int"
              => /\ forward.unit_locations.base = 0
                 /\ trainer.class \in {"ReftTrainer", "ReftSrTrainer"}

\* the trainer's step over a text batch without intervention_locations has
\* called the model with unit_locations None
C16_Witness ==
    /\ Forwarded
    /\ trainer.class = "ReftTrainer"
    /\ "intervention_locations" \notin DOMAIN inputs
    /\ "input_ids" \in DOMAIN inputs
    /\ forward.unit_locations.kind = "None"

\* the modality fields of the batch
Modalities == {"input_ids", "input_values", "input_features"} \cap DOMAIN inputs

\* C17: the step of the trainer and of ReftSrTrainer calls the intervenable
\* model only for a batch with exactly one of input_ids, input_values and
\* input_features; with none or more than one of them it ends with an error
\* and the model is not called.
C17_ExactlyOneModality ==
    (pc = "done" /\ trainer.class \in {"ReftTrainer", "ReftSrTrainer"}) =>
        /\ forward # <<>> => Cardinality(Modalities) = 1
        /\ Cardinality(Modalities) # 1 => (outcome \notin LossFunctions /\ forward = <<>>)

\* C18: in every variant of the training step that gets to the loss, a problem
\* type that is none of the recognized ones ends the step with the
\* configuration error, and no loss is returned.
C18_UnknownTypeRaises ==
    (Forwarded /\ trainer.problem_type = "other") =>
        /\ outcome \notin LossFunctions
        /\ outcome = "ValueError"

\* C23: in an assembled example with one masked field, attention_mask is 0 at
\* the padding (the one position put before the record's tokens) and 1 at every
\* token of the record, whatever its id, the pad id included.
C23_MaskMarksPadding ==
    (pc = "done" /\ dataset_class \in ReftDatasetClasses
     /\ "attention_mask" \in DOMAIN result) =>
        /\ Len(result.attention_mask) = Len(tokenized.input_ids) + 1
        /\ \A i \in 0..Len(tokenized.input_ids) :
              result.attention_mask[i + 1] = IF i = 0 THEN 0 ELSE 1

\* C27: in an assembled example whose record carries a subspace value the
\* subspaces list has as many entries as the location matrix has layer lists.
C27_SubspacesPerLayer ==
    (pc = "done" /\ dataset_class \in ReftDatasetClasses
     /\ "subspaces" \in DOMAIN result) =>
        Len(result.subspaces) = Len(result.intervention_locations)

\* C25: in an example of make_multiple_position_supervised_data_module built
\* from prompt, output and end marker, the sentinel of the location matrix
\* (last_position, the prompt length) is not the index of a token of input_ids.
C25_SentinelOutsideContent ==
    (pc = "done" /\ dataset_class = MultiplePosition /\ "nonstop" \notin DOMAIN kwargs) =>
        \A l \in DOMAIN result.intervention_locations :
            \A p \in DOMAIN result.intervention_locations[l] :
                result.intervention_locations[l][p] = last_pos
                    => last_pos \notin 0..(Len(result.input_ids) - 1)

\* the sentinel of a stored matrix of a ReftDataset example: pad_position -1
\* (dataset.py 86) after the shift by one of pad_mode "first" (dataset.py 226)
StoredSentinel == -1 + 1

\* C26: the collator's cut of the location matrix to the batch's sequence
\* length drops sentinel entries only: every index of a stored row that is not
\* the sentinel is in the returned row at the same place, and is smaller than
\* the batch's sequence length.
C26_OnlySentinelsRemoved ==
    DataCollated =>
        \A b \in DOMAIN batch.intervention_locations :
            \A l \in DOMAIN batch.intervention_locations[b] :
                LET stored == instances[b].intervention_locations[l]
                    row == batch.intervention_locations[b][l]
                IN  \A p \in DOMAIN stored :
                        stored[p] # StoredSentinel =>
                            /\ p \in DOMAIN row
                            /\ row[p] = stored[p]
                            /\ row[p] < BatchLength

\* a batch whose stored rows are wider than the padded sequences, hold an index
\* of a real token, and came back shorter
C26_Witness ==
    /\ DataCollated
    /\ \E b \in DOMAIN batch.intervention_locations :
          \E l \in DOMAIN batch.intervention_locations[b] :
              LET stored == instances[b].intervention_locations[l]
                  row == batch.intervention_locations[b][l]
              IN  /\ Len(stored) > BatchLength
                  /\ Len(row) = BatchLength
                  /\ \E p \in DOMAIN stored : stored[p] # StoredSentinel
                  /\ \A p \in (Len(row) + 1)..Len(stored) : stored[p] = StoredSentinel

(***************************************************************************)
(* Claims about the CTC branch of the training step, checked under SpecCtc.*)
(***************************************************************************)
\* C24: for a batch whose labels the collator padded to the longest with -100,
\* the CTC branch gives every example a target length equal to the number of
\* its real label tokens and an input length equal to the time dimension of
\* the logits.
C24_TargetLengthsCountRealLabels ==
    (pc = "done" /\ outcome = "CTCLoss" /\ lengths # <<>>) =>
        \A b \in DOMAIN instances :
            /\ lengths.target_lengths[b] = Len(instances[b].labels)
            /\ lengths.input_lengths[b] = logits_size.time_steps

(***************************************************************************)
(* Claims about evaluate, checked under SpecEval.                          *)
(***************************************************************************)
\* the calls of compute_metrics made so far, by their place among the calls
MetricCalls == { k \in DOMAIN calls : calls[k].op = "compute_metrics" }

\* the logits of the first n batches of the dataloader, row after row in
\* batch order
RECURSIVE PredsInBatchOrder(_)
PredsInBatchOrder(n) ==
    IF n = 0 THEN <<>> ELSE PredsInBatchOrder(n - 1) \o Logits(loader[n])

\* the labels of the first n batches of the dataloader, row after row in
\* batch order
RECURSIVE LabelsInBatchOrder(_)
LabelsInBatchOrder(n) ==
    IF n = 0 THEN <<>> ELSE LabelsInBatchOrder(n - 1) \o loader[n].labels.data

\* C21: compute_metrics is called at most once and as the last call: when it
\* is called every batch of the dataloader has been forwarded, in order, its
\* predictions and labels are those of all batches joined along the batch axis
\* in batch order, and nothing is forwarded after it; an evaluate that returns
\* has called it exactly once.
C21_MetricOnceAfterAllBatches ==
    /\ Cardinality(MetricCalls) <= 1
    /\ (pc = "done") => (Cardinality(MetricCalls) = 1)
    /\ \A k \in MetricCalls :
          /\ k = Len(calls)
          /\ k = Len(loader) + 1
          /\ \A j \in 1..Len(loader) :
                /\ calls[j].op = "intervenable"
                /\ calls[j].data = Payload(loader[j], "input_ids")
          /\ calls[k].predictions = PredsInBatchOrder(Len(loader))
          /\ calls[k].label_ids = LabelsInBatchOrder(Len(loader))

\* evaluate has returned the metrics of a dataloader of two batches whose
\* labels differ
C21_Witness ==
    /\ pc = "done" /\ outcome = "metrics"
    /\ Len(loader) = 2
    /\ loader[1].labels.data # loader[2].labels.data
    /\ Len(calls) = 3
    /\ calls[3].op = "compute_metrics"

\* C22: for every batch the sequence classification training step accepts,
\* evaluate accepts it too and hands the intervenable model the unit locations
\* the training step hands it.
C22_SameUnitLocationsAsTraining ==
    \A j \in DOMAIN loader :
        (/\ SequenceClassificationRejects(loader[j]) = "none"
         /\ (eval_step >= j \/ (pc = "error" /\ eval_step = j - 1))) =>
            /\ eval_step >= j
            /\ calls[j].op = "intervenable"
            /\ calls[j].unit_locations = SequenceClassificationUnitLocations(loader[j])
====
